---- MODULE Spec2Model ----
(***************************************************************************)
(* ESP32 DAC sine generator (singen.ino) and the blocking 64-point         *)
(* generator: the lookup table, the timer-period arithmetic, and the       *)
(* interleaving of the timer ISR with setup() and loop().                  *)
(*                                                                         *)
(* Frequencies are floats in the source.  Here a frequency is an integer   *)
(* count of 1/FREQ_DEN Hz, so that fractional requests such as 0.5 Hz are  *)
(* covered; Hz(n) is n Hz.  Voltages are in millivolts.                    *)
(***************************************************************************)
EXTENDS Integers, Sequences, FiniteSets, TLC

\* ---------------------------------------------------------------- bounds
\* Frequencies are multiples of 1/FREQ_DEN Hz.
FREQ_DEN == 2
\* dacWrites counts the writes to the DAC up to MaxWrites and then saturates.
MaxWrites == 2

Hz(n) == n * FREQ_DEN

\* ------------------------------------------------------ program constants
LUT_SIZE == 256
V_REF == 3300
V_OUT_PEAK_TO_PEAK == 1000
V_OUT_OFFSET == V_REF \div 2
DAC_FULL_SCALE == 255
TIMER_CLOCK_HZ == 1000000
\* Value of the DAC output before the first dacWrite: no code driven yet.
DAC_UNWRITTEN == -1

\* ------------------------------------------------------------ arithmetic
\* round(): nearest integer of n/d (d > 0), halves away from zero.
RoundDiv(n, d) ==
  IF n >= 0 THEN (2 * n + d) \div (2 * d)
            ELSE -((2 * (-n) + d) \div (2 * d))

Min(a, b) == IF a < b THEN a ELSE b
Max(a, b) == IF a > b THEN a ELSE b

\* sin(2*PI*k/SIN_STEPS) * SIN_SCALE, k = 0..SIN_STEPS-1, rounded to nearest.
\* With this scale RoundDiv(a * SinTable[k], SIN_SCALE) equals the float
\* computation round(a * sine_value) for every integer a in 0..255.
SIN_STEPS == 256
SIN_SCALE == 4194304
SinTable ==
    << 0, 102933, 205805, 308552, 411114, 513428, 615432, 717066,
       818268, 918977, 1019133, 1118674, 1217542, 1315677, 1413018, 1509509,
       1605091, 1699705, 1793296, 1885807, 1977181, 2067365, 2156303, 2243943,
       2330230, 2415115, 2498544, 2580468, 2660838, 2739605, 2816722, 2892143,
       2965821, 3037712, 3107774, 3175964, 3242241, 3306565, 3368897, 3429199,
       3487436, 3543573, 3597575, 3649409, 3699046, 3746454, 3791606, 3834474,
       3875032, 3913255, 3949122, 3982610, 4013699, 4042370, 4068606, 4092391,
       4113712, 4132554, 4148907, 4162761, 4174107, 4182939, 4189252, 4193041,
       4194304, 4193041, 4189252, 4182939, 4174107, 4162761, 4148907, 4132554,
       4113712, 4092391, 4068606, 4042370, 4013699, 3982610, 3949122, 3913255,
       3875032, 3834474, 3791606, 3746454, 3699046, 3649409, 3597575, 3543573,
       3487436, 3429199, 3368897, 3306565, 3242241, 3175964, 3107774, 3037712,
       2965821, 2892143, 2816722, 2739605, 2660838, 2580468, 2498544, 2415115,
       2330230, 2243943, 2156303, 2067365, 1977181, 1885807, 1793296, 1699705,
       1605091, 1509509, 1413018, 1315677, 1217542, 1118674, 1019133, 918977,
       818268, 717066, 615432, 513428, 411114, 308552, 205805, 102933,
       0, -102933, -205805, -308552, -411114, -513428, -615432, -717066,
       -818268, -918977, -1019133, -1118674, -1217542, -1315677, -1413018, -1509509,
       -1605091, -1699705, -1793296, -1885807, -1977181, -2067365, -2156303, -2243943,
       -2330230, -2415115, -2498544, -2580468, -2660838, -2739605, -2816722, -2892143,
       -2965821, -3037712, -3107774, -3175964, -3242241, -3306565, -3368897, -3429199,
       -3487436, -3543573, -3597575, -3649409, -3699046, -3746454, -3791606, -3834474,
       -3875032, -3913255, -3949122, -3982610, -4013699, -4042370, -4068606, -4092391,
       -4113712, -4132554, -4148907, -4162761, -4174107, -4182939, -4189252, -4193041,
       -4194304, -4193041, -4189252, -4182939, -4174107, -4162761, -4148907, -4132554,
       -4113712, -4092391, -4068606, -4042370, -4013699, -3982610, -3949122, -3913255,
       -3875032, -3834474, -3791606, -3746454, -3699046, -3649409, -3597575, -3543573,
       -3487436, -3429199, -3368897, -3306565, -3242241, -3175964, -3107774, -3037712,
       -2965821, -2892143, -2816722, -2739605, -2660838, -2580468, -2498544, -2415115,
       -2330230, -2243943, -2156303, -2067365, -1977181, -1885807, -1793296, -1699705,
       -1605091, -1509509, -1413018, -1315677, -1217542, -1118674, -1019133, -918977,
       -818268, -717066, -615432, -513428, -411114, -308552, -205805, -102933 >>

\* sin(2.0 * PI * (float)i / (float)size) in units of 1/SIN_SCALE, for a
\* size that divides SIN_STEPS.
sine_value(i, size) == SinTable[((i * (SIN_STEPS \div size)) % SIN_STEPS) + 1]

\* ------------------------------------------------------------ WaveTable
\* Conversion of an int to byte: the low 8 bits.
toByte(v) == v % 256

offset_dac == RoundDiv(V_OUT_OFFSET * DAC_FULL_SCALE, V_REF)
amplitude_dac == RoundDiv((V_OUT_PEAK_TO_PEAK \div 2) * DAC_FULL_SCALE, V_REF)

\* Mutant of dac_value: the two clamping branches are missing.
dac_value_unclamped(i, size, offset, amplitude) ==
  offset + RoundDiv(amplitude * sine_value(i, size), SIN_SCALE)

\* Mutant of dac_value: the phase is a quarter cycle off (cos for sin).
dac_value_cosine(i, size, offset, amplitude) ==
  LET v == offset + RoundDiv(amplitude * sine_value(i + size \div 4, size), SIN_SCALE)
  IN  IF v < 0 THEN 0 ELSE IF v > DAC_FULL_SCALE THEN DAC_FULL_SCALE ELSE v

\* One pass of the loop body of generateSineLUT, before the cast to byte.
dac_value(i, size, offset, amplitude) ==
  LET v == offset + RoundDiv(amplitude * sine_value(i, size), SIN_SCALE)
  IN  IF v < 0 THEN 0 ELSE IF v > DAC_FULL_SCALE THEN DAC_FULL_SCALE ELSE v

\* The table generateSineLUT leaves in sineLUT, for a given size, offset
\* code and amplitude code.
sineTable(size, offset, amplitude) ==
  [i \in 0..(size - 1) |-> toByte(dac_value(i, size, offset, amplitude))]

generateSineLUT == sineTable(LUT_SIZE, offset_dac, amplitude_dac)

\* Mutant of restCode: the quotient is truncated, not rounded.
restCode_truncated == toByte((V_OUT_OFFSET * DAC_FULL_SCALE) \div V_REF)

\* The code written to the DAC when the output is put at rest.
restCode == toByte(RoundDiv(V_OUT_OFFSET * DAC_FULL_SCALE, V_REF))

\* --------------------------------------------------------- timer period
\* Mutant of periodFor: the 1 us minimum is missing.
periodFor_noFloor(freq, size) ==
  IF freq <= 0 \/ size <= 0 THEN 0
  ELSE (TIMER_CLOCK_HZ * FREQ_DEN) \div (freq * size)

\* Mutant of periodFor: the 1 us minimum is applied to every request.
periodFor_noStop(freq, size) ==
  IF freq <= 0 \/ size <= 0 THEN 1
  ELSE LET period == (TIMER_CLOCK_HZ * FREQ_DEN) \div (freq * size)
       IN  IF period > 0 THEN period ELSE 1

\* Mutant of periodFor: the period of the wave, not of one sample.
periodFor_noSize(freq, size) ==
  IF freq <= 0 \/ size <= 0 THEN 0
  ELSE LET period == (TIMER_CLOCK_HZ * FREQ_DEN) \div freq
       IN  IF period > 0 THEN period ELSE 1

\* calculateUpdatePeriod with the table size as a parameter: the period in
\* microseconds of one sample, (uint64_t)(1000000.0 / (freq * size)).
periodFor(freq, size) ==
  IF freq <= 0 \/ size <= 0 THEN 0
  ELSE LET period == (TIMER_CLOCK_HZ * FREQ_DEN) \div (freq * size)
       IN  IF period > 0 THEN period ELSE 1

calculateUpdatePeriod(freq) == periodFor(freq, LUT_SIZE)

\* --------------------------------------------------------- serial input
\* A received line: a number the parser can read, or any other text.
SerialLines ==
  { [kind |-> "num", val |-> v] : v \in {Hz(0), 1, Hz(100), Hz(20000), -Hz(1)} }
    \cup { [kind |-> "text", val |-> 0] }

\* String::toFloat(): the number read, 0 when the text is no number.
toFloat(line) == IF line.kind = "num" THEN line.val ELSE 0

\* The value targetFrequency is built with; setup() handles both a positive
\* and a zero initial value.
InitialFrequencies == {Hz(0), Hz(100)}

\* ---------------------------------------------------------------- state
VARIABLES
  pc,                  \* position of the main context in setup() / loop()
  sineLUT,             \* byte sineLUT[LUT_SIZE]
  lutIndex,            \* volatile int lutIndex
  timer,               \* the hardware timer behind hw_timer_t *timer
  targetFrequency,     \* volatile float targetFrequency
  updatePeriodMicros,  \* volatile uint64_t updatePeriodMicros
  updateFrequency,     \* volatile bool updateFrequency
  dacOut,              \* the code last written to DAC_PIN
  dacWrites,           \* number of dacWrite calls so far, saturating
  lastWrite,           \* which dacWrite call wrote last: "none", "onTimer", "loop"
  input,               \* the line received in this pass of loop(), NoLine if none
  applied,             \* what the last completed reconfiguration left, while
                       \* no tick has fired since
  probe                \* arguments and result of a function applied alone

vars == <<pc, sineLUT, lutIndex, timer, targetFrequency, updatePeriodMicros,
          updateFrequency, dacOut, dacWrites, lastWrite, input, applied, probe>>

player == <<pc, sineLUT, lutIndex, timer, targetFrequency, updatePeriodMicros,
            updateFrequency, dacOut, dacWrites, lastWrite, input, applied>>

\* No line waiting: Serial.available() is 0.
NoLine == [kind |-> "none", val |-> 0]

\* The playback state: period, timer configuration, cursor and output.
Playback(t, period, index, out) == <<period, t, index, out>>

NoneApplied == [valid |-> FALSE, freq |-> 0, state |-> <<>>, repeated |-> FALSE]

\* The record of a reconfiguration to freq that has just completed; repeated
\* tells that the one before it was to the same frequency, with no tick since.
Applied(freq, state) ==
  [valid |-> TRUE, freq |-> freq, state |-> state,
   repeated |-> applied.valid /\ applied.freq = freq]

countWrite(n) == IF n < MaxWrites THEN n + 1 ELSE n

InitPlayer ==
  /\ pc = "setup_generateSineLUT"
  /\ sineLUT = [i \in 0..(LUT_SIZE - 1) |-> 0]
  /\ lutIndex = 0
  /\ timer = [handle |-> FALSE, isr |-> FALSE, alarmEn |-> FALSE,
              alarmValue |-> 0, autoreload |-> FALSE]
  /\ updatePeriodMicros = 0
  /\ updateFrequency = FALSE
  /\ dacOut = DAC_UNWRITTEN
  /\ dacWrites = 0
  /\ lastWrite = "none"
  /\ input = NoLine
  /\ applied = NoneApplied

Init ==
  /\ InitPlayer
  /\ targetFrequency \in InitialFrequencies
  /\ probe = [fn |-> "none", done |-> FALSE]

\* ------------------------------------------------------------ timer API
timerAttachInterrupt(t) == [t EXCEPT !.isr = TRUE]
timerDetachInterrupt(t) == [t EXCEPT !.isr = FALSE]
timerAlarm(t, alarm_value, autoreload) ==
  [t EXCEPT !.alarmEn = TRUE, !.alarmValue = alarm_value, !.autoreload = autoreload]

\* ------------------------------------------------------------------ ISR
\* Mutant of onTimer: the wrap test is > instead of >=.
onTimer_lateWrap ==
  /\ timer.handle /\ timer.isr /\ timer.alarmEn
  /\ lutIndex < LUT_SIZE
  /\ dacOut' = sineLUT[lutIndex]
  /\ dacWrites' = countWrite(dacWrites)
  /\ lastWrite' = "onTimer"
  /\ lutIndex' = IF lutIndex + 1 > LUT_SIZE THEN 0 ELSE lutIndex + 1
  /\ timer' = [timer EXCEPT !.alarmEn = timer.autoreload]
  /\ applied' = NoneApplied
  /\ UNCHANGED <<pc, sineLUT, targetFrequency, updatePeriodMicros,
                 updateFrequency, input, probe>>

\* Mutant of onTimer: the cursor is advanced before the sample is written.
onTimer_emitNext ==
  /\ timer.handle /\ timer.isr /\ timer.alarmEn
  /\ lutIndex' = IF lutIndex + 1 >= LUT_SIZE THEN 0 ELSE lutIndex + 1
  /\ dacOut' = sineLUT[lutIndex']
  /\ dacWrites' = countWrite(dacWrites)
  /\ lastWrite' = "onTimer"
  /\ timer' = [timer EXCEPT !.alarmEn = timer.autoreload]
  /\ applied' = NoneApplied
  /\ UNCHANGED <<pc, sineLUT, targetFrequency, updatePeriodMicros,
                 updateFrequency, input, probe>>

\* Mutant of onTimer: the ISR also clears the update flag.
onTimer_clearsUpdate ==
  /\ timer.handle /\ timer.isr /\ timer.alarmEn
  /\ dacOut' = sineLUT[lutIndex]
  /\ dacWrites' = countWrite(dacWrites)
  /\ lastWrite' = "onTimer"
  /\ lutIndex' = IF lutIndex + 1 >= LUT_SIZE THEN 0 ELSE lutIndex + 1
  /\ timer' = [timer EXCEPT !.alarmEn = timer.autoreload]
  /\ applied' = NoneApplied
  /\ updateFrequency' = FALSE
  /\ UNCHANGED <<pc, sineLUT, targetFrequency, updatePeriodMicros,
                 input, probe>>

\* The alarm fires with the callback attached: one sample out, cursor on.
onTimer ==
  /\ timer.handle /\ timer.isr /\ timer.alarmEn
  /\ dacOut' = sineLUT[lutIndex]
  /\ dacWrites' = countWrite(dacWrites)
  /\ lastWrite' = "onTimer"
  /\ lutIndex' = IF lutIndex + 1 >= LUT_SIZE THEN 0 ELSE lutIndex + 1
  /\ timer' = [timer EXCEPT !.alarmEn = timer.autoreload]
  /\ applied' = NoneApplied
  /\ UNCHANGED <<pc, sineLUT, targetFrequency, updatePeriodMicros,
                 updateFrequency, input, probe>>

\* -------------------------------------------------------------- setup()
setup_generateSineLUT ==
  /\ pc = "setup_generateSineLUT"
  /\ sineLUT' = generateSineLUT
  /\ pc' = "setup_timerBegin"
  /\ UNCHANGED <<lutIndex, timer, targetFrequency, updatePeriodMicros,
                 updateFrequency, dacOut, dacWrites, lastWrite, input, applied, probe>>

\* Mutant of setup_timerBegin: the NULL handle is not checked.
setup_timerBegin_noHalt ==
  /\ pc = "setup_timerBegin"
  /\ \E ok \in BOOLEAN :
       /\ timer' = [timer EXCEPT !.handle = ok]
       /\ pc' = "setup_timerAttachInterrupt"
  /\ UNCHANGED <<sineLUT, lutIndex, targetFrequency, updatePeriodMicros,
                 updateFrequency, dacOut, dacWrites, lastWrite, input, applied, probe>>

\* timerBegin(1000000) returns a handle, or NULL and setup() spins for ever.
setup_timerBegin ==
  /\ pc = "setup_timerBegin"
  /\ \E ok \in BOOLEAN :
       /\ timer' = [timer EXCEPT !.handle = ok]
       /\ pc' = IF ok THEN "setup_timerAttachInterrupt" ELSE "halt"
  /\ UNCHANGED <<sineLUT, lutIndex, targetFrequency, updatePeriodMicros,
                 updateFrequency, dacOut, dacWrites, lastWrite, input, applied, probe>>

setup_timerAttachInterrupt ==
  /\ pc = "setup_timerAttachInterrupt"
  /\ timer' = timerAttachInterrupt(timer)
  /\ pc' = "setup_calculateUpdatePeriod"
  /\ UNCHANGED <<sineLUT, lutIndex, targetFrequency, updatePeriodMicros,
                 updateFrequency, dacOut, dacWrites, lastWrite, input, applied, probe>>

setup_calculateUpdatePeriod ==
  /\ pc = "setup_calculateUpdatePeriod"
  /\ updatePeriodMicros' = calculateUpdatePeriod(targetFrequency)
  /\ pc' = IF updatePeriodMicros' > 0 THEN "setup_timerAlarm"
                                      ELSE "setup_timerDetachInterrupt"
  /\ UNCHANGED <<sineLUT, lutIndex, timer, targetFrequency, updateFrequency,
                 dacOut, dacWrites, lastWrite, input, applied, probe>>

setup_timerAlarm ==
  /\ pc = "setup_timerAlarm"
  /\ timer' = timerAlarm(timer, updatePeriodMicros, TRUE)
  /\ pc' = "loop_readSerial"
  /\ UNCHANGED <<sineLUT, lutIndex, targetFrequency, updatePeriodMicros,
                 updateFrequency, dacOut, dacWrites, lastWrite, input, applied, probe>>

setup_timerDetachInterrupt ==
  /\ pc = "setup_timerDetachInterrupt"
  /\ timer' = timerDetachInterrupt(timer)
  /\ pc' = "loop_readSerial"
  /\ UNCHANGED <<sineLUT, lutIndex, targetFrequency, updatePeriodMicros,
                 updateFrequency, dacOut, dacWrites, lastWrite, input, applied, probe>>

\* --------------------------------------------------------------- loop()
\* Mutant of readLine: the test newFreq >= 0 is missing.
readLine_acceptAll(line) ==
  LET newFreq == toFloat(line)
  IN  /\ input' = line
      /\ targetFrequency' = newFreq
      /\ updateFrequency' = TRUE

\* Lines 115-125: a waiting line is read, parsed and either accepted (>= 0)
\* or reported invalid.
readLine(line) ==
  LET newFreq == toFloat(line)
  IN  /\ input' = line
      /\ IF newFreq >= 0
         THEN /\ targetFrequency' = newFreq
              /\ updateFrequency' = TRUE
         ELSE UNCHANGED <<targetFrequency, updateFrequency>>

\* Lines 114-126: no line is waiting, or one is read.
loop_readSerial ==
  /\ pc = "loop_readSerial"
  /\ \/ /\ input' = NoLine
        /\ UNCHANGED <<targetFrequency, updateFrequency>>
     \/ \E line \in SerialLines : readLine(line)
  /\ pc' = "loop_checkUpdate"
  /\ UNCHANGED <<sineLUT, lutIndex, timer, updatePeriodMicros, dacOut,
                 dacWrites, lastWrite, applied, probe>>

loop_checkUpdate ==
  /\ pc = "loop_checkUpdate"
  /\ pc' = IF updateFrequency THEN "loop_timerDetachInterrupt" ELSE "loop_delay"
  /\ UNCHANGED <<sineLUT, lutIndex, timer, targetFrequency, updatePeriodMicros,
                 updateFrequency, dacOut, dacWrites, lastWrite, input, applied, probe>>

\* Mutant of loop_timerDetachInterrupt: the callback stays attached.
loop_noDetach ==
  /\ pc = "loop_timerDetachInterrupt"
  /\ pc' = "loop_calculateUpdatePeriod"
  /\ UNCHANGED <<sineLUT, lutIndex, timer, targetFrequency, updatePeriodMicros,
                 updateFrequency, dacOut, dacWrites, lastWrite, input, applied, probe>>

loop_timerDetachInterrupt ==
  /\ pc = "loop_timerDetachInterrupt"
  /\ timer' = timerDetachInterrupt(timer)
  /\ pc' = "loop_calculateUpdatePeriod"
  /\ UNCHANGED <<sineLUT, lutIndex, targetFrequency, updatePeriodMicros,
                 updateFrequency, dacOut, dacWrites, lastWrite, input, applied, probe>>

loop_calculateUpdatePeriod ==
  /\ pc = "loop_calculateUpdatePeriod"
  /\ updatePeriodMicros' = calculateUpdatePeriod(targetFrequency)
  /\ pc' = IF updatePeriodMicros' > 0 THEN "loop_timerAlarm" ELSE "loop_dacWrite"
  /\ UNCHANGED <<sineLUT, lutIndex, timer, targetFrequency, updateFrequency,
                 dacOut, dacWrites, lastWrite, input, applied, probe>>

\* Mutant of loop_timerAlarm: re-arming the timer also restarts the wave.
loop_timerAlarm_resetIndex ==
  /\ pc = "loop_timerAlarm"
  /\ timer' = timerAlarm(timer, updatePeriodMicros, TRUE)
  /\ lutIndex' = 0
  /\ pc' = "loop_timerAttachInterrupt"
  /\ UNCHANGED <<sineLUT, targetFrequency, updatePeriodMicros,
                 updateFrequency, dacOut, dacWrites, lastWrite, input, applied, probe>>

\* Mutant of loop_timerAlarm: the alarm is not reprogrammed.
loop_timerAlarm_stale ==
  /\ pc = "loop_timerAlarm"
  /\ timer' = timer
  /\ pc' = "loop_timerAttachInterrupt"
  /\ UNCHANGED <<sineLUT, lutIndex, targetFrequency, updatePeriodMicros,
                 updateFrequency, dacOut, dacWrites, lastWrite, input, applied, probe>>

\* Mutant of loop_timerAlarm: the new period is added to the old alarm.
loop_timerAlarm_relative ==
  /\ pc = "loop_timerAlarm"
  /\ timer' = timerAlarm(timer, timer.alarmValue + updatePeriodMicros, TRUE)
  /\ pc' = "loop_timerAttachInterrupt"
  /\ UNCHANGED <<sineLUT, lutIndex, targetFrequency, updatePeriodMicros,
                 updateFrequency, dacOut, dacWrites, lastWrite, input, applied, probe>>

loop_timerAlarm ==
  /\ pc = "loop_timerAlarm"
  /\ timer' = timerAlarm(timer, updatePeriodMicros, TRUE)
  /\ pc' = "loop_timerAttachInterrupt"
  /\ UNCHANGED <<sineLUT, lutIndex, targetFrequency, updatePeriodMicros,
                 updateFrequency, dacOut, dacWrites, lastWrite, input, applied, probe>>

\* Mutant of loop_timerAttachInterrupt: the callback is not re-attached.
loop_noAttach ==
  /\ pc = "loop_timerAttachInterrupt"
  /\ timer' = timer
  /\ pc' = "loop_clearUpdate"
  /\ applied' = Applied(targetFrequency, Playback(timer', updatePeriodMicros, lutIndex, dacOut))
  /\ UNCHANGED <<sineLUT, lutIndex, targetFrequency, updatePeriodMicros,
                 updateFrequency, dacOut, dacWrites, lastWrite, input, probe>>

\* Step 3 ends here: the reconfiguration to a positive frequency is complete.
loop_timerAttachInterrupt ==
  /\ pc = "loop_timerAttachInterrupt"
  /\ timer' = timerAttachInterrupt(timer)
  /\ pc' = "loop_clearUpdate"
  /\ applied' = Applied(targetFrequency, Playback(timer', updatePeriodMicros, lutIndex, dacOut))
  /\ UNCHANGED <<sineLUT, lutIndex, targetFrequency, updatePeriodMicros,
                 updateFrequency, dacOut, dacWrites, lastWrite, input, probe>>

\* Mutant of loop_dacWrite: stopping also rewinds the cursor.
loop_dacWrite_resetIndex ==
  /\ pc = "loop_dacWrite"
  /\ dacOut' = restCode
  /\ dacWrites' = countWrite(dacWrites)
  /\ lastWrite' = "loop"
  /\ lutIndex' = 0
  /\ pc' = "loop_clearUpdate"
  /\ applied' = Applied(targetFrequency, Playback(timer, updatePeriodMicros, 0, restCode))
  /\ UNCHANGED <<sineLUT, timer, targetFrequency, updatePeriodMicros,
                 updateFrequency, input, probe>>

\* The rest write of the else branch, line 141: step 4 ends here.
loop_dacWrite ==
  /\ pc = "loop_dacWrite"
  /\ dacOut' = restCode
  /\ dacWrites' = countWrite(dacWrites)
  /\ lastWrite' = "loop"
  /\ pc' = "loop_clearUpdate"
  /\ applied' = Applied(targetFrequency, Playback(timer, updatePeriodMicros, lutIndex, restCode))
  /\ UNCHANGED <<sineLUT, lutIndex, timer, targetFrequency, updatePeriodMicros,
                 updateFrequency, input, probe>>

\* Mutant of loop_clearUpdate: the flag is left set.
loop_clearUpdate_keepFlag ==
  /\ pc = "loop_clearUpdate"
  /\ pc' = "loop_delay"
  /\ UNCHANGED <<sineLUT, lutIndex, timer, targetFrequency, updatePeriodMicros,
                 updateFrequency, dacOut, dacWrites, lastWrite, input, applied, probe>>

loop_clearUpdate ==
  /\ pc = "loop_clearUpdate"
  /\ updateFrequency' = FALSE
  /\ pc' = "loop_delay"
  /\ UNCHANGED <<sineLUT, lutIndex, timer, targetFrequency, updatePeriodMicros,
                 dacOut, dacWrites, lastWrite, input, applied, probe>>

loop_delay ==
  /\ pc = "loop_delay"
  /\ pc' = "loop_readSerial"
  /\ UNCHANGED <<sineLUT, lutIndex, timer, targetFrequency, updatePeriodMicros,
                 updateFrequency, dacOut, dacWrites, lastWrite, input, applied, probe>>

\* -------------------------------------------------------- specification
Next ==
  \/ setup_generateSineLUT
  \/ setup_timerBegin
  \/ setup_timerAttachInterrupt
  \/ setup_calculateUpdatePeriod
  \/ setup_timerAlarm
  \/ setup_timerDetachInterrupt
  \/ loop_readSerial
  \/ loop_checkUpdate
  \/ loop_timerDetachInterrupt
  \/ loop_calculateUpdatePeriod
  \/ loop_timerAlarm
  \/ loop_timerAttachInterrupt
  \/ loop_dacWrite
  \/ loop_clearUpdate
  \/ loop_delay
  \/ onTimer

Spec == Init /\ [][Next]_vars

\* ------------------------------------- the blocking generator (part_000)
\* 64 points at 100 Hz, paced by delayMicroseconds(1000000 / (FREQ_HZ *
\* LUT_SIZE)) in integer arithmetic.
Basic_LUT_SIZE == 64
Basic_FREQ_HZ == 100
Basic_delayMicros == TIMER_CLOCK_HZ \div (Basic_FREQ_HZ * Basic_LUT_SIZE)

\* float sine_val = (sin(angle) + 1.0) / 2.0 with float angle = 2.0*PI*i/64,
\* in units of 1/Basic_SINE_UNIT (2^-25, the spacing of floats below 0.5).
\* The float angle of i = 32 lies just above PI, so sine_val is one unit
\* below one half there.
Basic_SINE_UNIT == 33554432
Basic_SineVal ==
    << 16777216, 18421670, 20050288, 21647384, 23197578, 24685940, 26098138, 27420568,
       28640500, 29746180, 30726962, 31573400, 32277342, 32832010, 33232062, 33473646,
       33554432, 33473646, 33232062, 32832010, 32277342, 31573400, 30726962, 29746180,
       28640500, 27420568, 26098136, 24685942, 23197580, 21647386, 20050288, 18421670,
       16777215, 15132763, 13504145, 11907048, 10356853, 8868490, 7456293, 6133864,
       4913934, 3808253, 2827473, 1981032, 1277090, 722421, 322370, 80787,
       0, 80787, 322370, 722421, 1277091, 1981032, 2827468, 3808253,
       4913931, 6133864, 7456294, 8868494, 10356854, 11907044, 13504145, 15132760 >>

Basic_sine_val(i) == Basic_SineVal[i + 1]

\* round(sine_val * 255.0) = floor(255*q / 2^25 + 1/2), q = a*2^17 + b, in
\* 32-bit steps.
Basic_round255(q) ==
  LET a == q \div 131072
      b == q % 131072
  IN  (DAC_FULL_SCALE * a + (DAC_FULL_SCALE * b + Basic_SINE_UNIT \div 2) \div 131072) \div 256

Basic_generateSineLUT ==
  [i \in 0..(Basic_LUT_SIZE - 1) |-> toByte(Basic_round255(Basic_sine_val(i)))]

\* ------------------------------------------- periodFor applied on its own
FreqArgs == { -Hz(1), Hz(0), 1, Hz(1), Hz(17), Hz(100), Hz(3906), Hz(3907),
              Hz(15625), Hz(20000), Hz(1000000) }
SizeArgs == { -1, 0, 1, 4, 64, 256 }

InitPeriod ==
  /\ InitPlayer
  /\ targetFrequency = Hz(100)
  /\ probe \in { [fn |-> "periodFor", freq |-> f, size |-> n,
                  done |-> FALSE, result |-> 0] : f \in FreqArgs, n \in SizeArgs }

call_periodFor ==
  /\ probe.fn = "periodFor"
  /\ ~probe.done
  /\ probe' = [probe EXCEPT !.done = TRUE,
                            !.result = periodFor(probe.freq, probe.size)]
  /\ UNCHANGED player

NextPeriod == call_periodFor

SpecPeriod == InitPeriod /\ [][NextPeriod]_vars

\* periodFor applied on its own, or the player run from its start; the
\* player does not run while a function is applied alone.
SpecPeriodPlayer ==
  (InitPeriod \/ Init) /\ [][NextPeriod \/ (probe.fn = "none" /\ Next)]_vars

\* ------------------------------------------- sineTable applied on its own
TableSizes == { 1, 2, 4, 8, 16, 32, 64, 128, 256 }
OffsetCodes == { 0, 1, 128, 250, 255 }
AmplitudeCodes == { 0, 1, 39, 100, 255 }

InitLUT ==
  /\ InitPlayer
  /\ targetFrequency = Hz(100)
  /\ probe \in { [fn |-> "sineTable", size |-> n, offset |-> o, amplitude |-> a,
                  done |-> FALSE, result |-> <<>>] :
                 n \in TableSizes, o \in OffsetCodes, a \in AmplitudeCodes }
             \cup { [fn |-> "Basic_generateSineLUT", done |-> FALSE, result |-> <<>>] }

call_sineTable ==
  /\ probe.fn = "sineTable"
  /\ ~probe.done
  /\ probe' = [probe EXCEPT !.done = TRUE,
                 !.result = sineTable(probe.size, probe.offset, probe.amplitude)]
  /\ UNCHANGED player

call_Basic_generateSineLUT ==
  /\ probe.fn = "Basic_generateSineLUT"
  /\ ~probe.done
  /\ probe' = [probe EXCEPT !.done = TRUE, !.result = Basic_generateSineLUT]
  /\ UNCHANGED player

NextLUT == call_sineTable \/ call_Basic_generateSineLUT

SpecLUT == InitLUT /\ [][NextLUT]_vars

\* ================================================================ claims
SetupPcs == { "setup_generateSineLUT", "setup_timerBegin",
              "setup_timerAttachInterrupt", "setup_calculateUpdatePeriod",
              "setup_timerAlarm", "setup_timerDetachInterrupt", "halt" }

\* Positions of loop() at which timerDetachInterrupt (step 1) has run and
\* step 3 (re-attach) or step 4 (rest write) has not yet finished.
Reconfiguring == { "loop_calculateUpdatePeriod", "loop_timerAlarm",
                   "loop_timerAttachInterrupt", "loop_dacWrite" }

\* C1: in every reachable state, under every interleaving of onTimer with
\* setup() and loop(), an armed timer has a period of at least 1 and
\* lutIndex is a valid index of sineLUT.
C1_MutualExclusion ==
  /\ timer.alarmEn => timer.alarmValue >= 1
  /\ lutIndex \in 0..(LUT_SIZE - 1)

\* C1 witness: the cursor is at the last entry, the timer is armed at the
\* fastest period, and a reconfiguration is under way.
C1_Witness ==
  /\ pc \in Reconfiguring
  /\ timer.alarmEn /\ timer.alarmValue = 1
  /\ lutIndex = LUT_SIZE - 1

\* C2: no onTimer step is taken between the detach of step 1 and the end of
\* step 3/4; updatePeriodMicros and the alarm are written by loop() only
\* with the callback detached; and the callback is re-attached only when
\* the alarm has been programmed with the new period.
C2_ReconfigureAtomic ==
  [][ /\ onTimer => pc \notin Reconfiguring
      /\ (loop_calculateUpdatePeriod \/ loop_timerAlarm \/ loop_dacWrite)
            => ~timer.isr /\ ~timer'.isr
      /\ (pc \notin SetupPcs /\ timer'.alarmValue # timer.alarmValue) => ~timer.isr
      /\ loop_timerAttachInterrupt
            => /\ timer.alarmEn /\ timer.autoreload
               /\ updatePeriodMicros >= 1
               /\ timer.alarmValue = updatePeriodMicros
               /\ updatePeriodMicros = calculateUpdatePeriod(targetFrequency)
    ]_vars

\* C2 witness: a running player (armed, cursor advanced) is being
\* reconfigured: the alarm is live but the callback is detached.
C2_Witness ==
  /\ pc = "loop_timerAlarm"
  /\ timer.alarmEn /\ ~timer.isr
  /\ lutIndex > 0
  /\ updatePeriodMicros # timer.alarmValue

\* C3: from the detach of step 1 to the end of the re-attach of step 3 (and
\* of the rest write of step 4) no step changes lutIndex: the cursor after
\* reconfigure returns is the cursor it was called with.
C3_PhasePreserved ==
  [][ (loop_timerDetachInterrupt \/ pc \in Reconfiguring) => lutIndex' = lutIndex ]_vars

\* C3 witness: ticks have advanced the cursor to 100 and a reconfiguration
\* to another positive frequency has reprogrammed the alarm.
C3_Witness ==
  /\ pc = "loop_timerAttachInterrupt"
  /\ lutIndex = 100
  /\ targetFrequency = Hz(20000)
  /\ timer.alarmValue = 1

\* C4: whenever freq > 0, size > 0 and freq * size > 1 000 000, periodFor
\* returns exactly 1; and a reconfiguration to such a frequency ends with
\* the player running at a period of 1: callback attached, alarm armed at 1.
C4_FloorClamp ==
  /\ (probe.done /\ probe.freq > 0 /\ probe.size > 0
        /\ probe.freq * probe.size > TIMER_CLOCK_HZ * FREQ_DEN)
     => probe.result = 1
  /\ (pc = "loop_clearUpdate" /\ updateFrequency /\ targetFrequency > 0
        /\ targetFrequency * LUT_SIZE > TIMER_CLOCK_HZ * FREQ_DEN)
     => /\ updatePeriodMicros = 1
        /\ timer.isr /\ timer.alarmEn /\ timer.alarmValue = 1

\* C4 witness: 20 kHz with 256 points.
C4_Witness ==
  /\ probe.done /\ probe.freq = Hz(20000) /\ probe.size = 256
  /\ probe.result = 1

\* C5: periodFor returns 0 for a zero or negative frequency whatever the
\* size, and returns 0 only when freq <= 0 or size <= 0.
C5_StopSemantics ==
  probe.done => (probe.result = 0 <=> (probe.freq <= 0 \/ probe.size <= 0))

\* C5 witness: a negative frequency with a valid size gives 0.
C5_Witness ==
  /\ probe.done /\ probe.freq < 0 /\ probe.size > 0
  /\ probe.result = 0

\* C6: for a positive whole number of Hz and a size with freq * size <=
\* 1 000 000, periodFor returns floor(1 000 000 / (freq * size)), the
\* integer p with p*freq*size <= 1 000 000 < (p+1)*freq*size; 100 Hz gives
\* 156 with 64 points (the delay of the blocking generator) and 39 with 256.
C6_PeriodValue ==
  (probe.done /\ probe.freq > 0 /\ probe.freq % FREQ_DEN = 0 /\ probe.size > 0
     /\ probe.freq * probe.size <= TIMER_CLOCK_HZ * FREQ_DEN)
  => /\ probe.result * (probe.freq * probe.size) <= TIMER_CLOCK_HZ * FREQ_DEN
     /\ (probe.result + 1) * (probe.freq * probe.size) > TIMER_CLOCK_HZ * FREQ_DEN
     /\ (probe.freq = Hz(100) /\ probe.size = 64)
           => probe.result = 156 /\ probe.result = Basic_delayMicros
     /\ (probe.freq = Hz(100) /\ probe.size = 256) => probe.result = 39

\* C6 witness: 100 Hz with 64 points gives 156.
C6_Witness ==
  /\ probe.done /\ probe.freq = Hz(100) /\ probe.size = 64
  /\ probe.result = 156

\* C7: a player started at frequency 0 has made exactly one write, of the
\* mid-scale code, and has not armed the timer; as long as no positive
\* frequency has armed it, that stays the only write (also when further
\* frequency-0 commands arrive).
C7_StartAtZero ==
  (pc \notin SetupPcs /\ ~timer.alarmEn)
  => /\ dacWrites = 1
     /\ dacOut = restCode
     /\ ~timer.isr

\* C8 as stated: once the rest write is made, the next write to the output
\* is a tick under a positive period; no other write comes first.
C8_LastWrite ==
  [][ (lastWrite = "loop" /\ (onTimer \/ loop_dacWrite))
        => (onTimer /\ updatePeriodMicros >= 1) ]_vars

\* C8 amended: when reconfigure computes a period of 0 the callback stays
\* detached and one write of the mid-scale code, the offset code of the
\* table, is made; the output then stays at that code and no tick fires
\* until a later reconfigure with a positive frequency has re-armed the
\* timer; a later reconfigure with a frequency <= 0 writes the same code
\* once more.
C8_RestState ==
  [][ /\ loop_dacWrite
        => /\ targetFrequency <= 0 /\ updatePeriodMicros = 0
           /\ ~timer.isr /\ ~timer'.isr
           /\ dacOut' = offset_dac /\ dacOut' = sineLUT[0]
           /\ dacWrites' = countWrite(dacWrites)
           /\ pc' = "loop_clearUpdate"
      /\ lastWrite = "loop" => dacOut = offset_dac
      /\ (lastWrite = "loop" /\ updatePeriodMicros = 0) => ~timer.isr
      /\ (lastWrite = "loop" /\ lastWrite' # "loop")
        => /\ onTimer
           /\ updatePeriodMicros >= 1
           /\ timer.alarmValue = updatePeriodMicros
    ]_vars

\* C8 witness: a running player has been stopped: rest code on the output,
\* callback detached, cursor where the last tick left it.
C8_Witness ==
  /\ pc = "loop_delay"
  /\ lastWrite = "loop" /\ dacOut = restCode
  /\ ~timer.isr /\ updatePeriodMicros = 0
  /\ lutIndex > 0

\* C9: every entry of a generated table is in 0..255, and a sample whose
\* offset + amplitude*sin leaves the range is held at the rail, not wrapped:
\* the first half-cycle never falls below the offset code, the second never
\* rises above it, and the peak and the trough are min(255, offset +
\* amplitude) and max(0, offset - amplitude).  The 64-point table of the
\* blocking generator spans exactly 0..255.
C9_ClampInvariant ==
  /\ (probe.done /\ probe.fn = "sineTable")
     => LET n == probe.size
            lut == probe.result
        IN  /\ DOMAIN lut = 0..(n - 1)
            /\ \A i \in 0..(n - 1) :
                 /\ lut[i] \in 0..DAC_FULL_SCALE
                 /\ 2 * i <= n => lut[i] >= probe.offset
                 /\ 2 * i >= n => lut[i] <= probe.offset
            /\ n >= 4 =>
                 /\ lut[n \div 4] = Min(DAC_FULL_SCALE, probe.offset + probe.amplitude)
                 /\ lut[3 * (n \div 4)] = Max(0, probe.offset - probe.amplitude)
  /\ (probe.done /\ probe.fn = "Basic_generateSineLUT")
     => LET lut == probe.result
        IN  /\ DOMAIN lut = 0..(Basic_LUT_SIZE - 1)
            /\ \A i \in 0..(Basic_LUT_SIZE - 1) : lut[i] \in 0..DAC_FULL_SCALE
            /\ lut[Basic_LUT_SIZE \div 4] = DAC_FULL_SCALE
            /\ lut[3 * (Basic_LUT_SIZE \div 4)] = 0

\* C9 witness: offset 250 and amplitude 100 with 256 points: the peak is
\* held at 255 and the trough is 150.
C9_Witness ==
  /\ probe.done /\ probe.fn = "sineTable"
  /\ probe.size = 256 /\ probe.offset = 250 /\ probe.amplitude = 100
  /\ probe.result[64] = 255
  /\ probe.result[192] = 150

\* C10: entry 0 of a generated table is the offset code, within 1 code;
\* entry 0 of the 64-point table of the blocking generator is within 1 code
\* of its mid-scale 255/2.
C10_NoDcError ==
  /\ (probe.done /\ probe.fn = "sineTable")
     => /\ probe.result[0] - probe.offset <= 1
        /\ probe.offset - probe.result[0] <= 1
  /\ (probe.done /\ probe.fn = "Basic_generateSineLUT")
     => /\ 2 * probe.result[0] - DAC_FULL_SCALE <= 2
        /\ DAC_FULL_SCALE - 2 * probe.result[0] <= 2

\* C10 witness: a table with a large amplitude whose entry 0 is the offset.
C10_Witness ==
  /\ probe.done /\ probe.fn = "sineTable"
  /\ probe.amplitude = 100 /\ probe.offset = 128 /\ probe.size = 64
  /\ probe.result[0] = 128

\* Positions of loop() inside the updateFrequency branch, lines 129-143.
UpdateBranch == Reconfiguring \cup { "loop_timerDetachInterrupt", "loop_clearUpdate" }

NegativeInput == input.kind = "num" /\ toFloat(input) < 0

\* C11: reading a line whose value is negative changes neither
\* targetFrequency, updateFrequency, updatePeriodMicros, the timer, the
\* cursor nor the output, and the pass of loop() that read it never enters
\* the updateFrequency branch.
C11_NegativeRejected ==
  /\ [][ \A line \in SerialLines :
           (toFloat(line) < 0 /\ pc = "loop_readSerial" /\ pc' # pc /\ input' = line)
           => /\ pc' = "loop_checkUpdate"
              /\ UNCHANGED <<targetFrequency, updateFrequency, updatePeriodMicros,
                             timer, lutIndex, dacOut, dacWrites, lastWrite>> ]_vars
  /\ [](NegativeInput => (~updateFrequency /\ pc \notin UpdateBranch))

\* C11 witness: a running player has read a negative value and reached the
\* end of the pass.
C11_Witness ==
  /\ NegativeInput
  /\ pc = "loop_delay"
  /\ timer.isr /\ timer.alarmEn /\ lutIndex > 0

\* C12: a line that is not a number, or is negative, never sets
\* updateFrequency and never brings loop() into the updateFrequency branch.
C12_MalformedFiltered ==
  (input.kind = "text" \/ NegativeInput)
  => (~updateFrequency /\ pc \notin UpdateBranch)

\* C13: when timerBegin fails setup() halts: from then on no step is taken,
\* the callback is not attached, the alarm is not armed, no sample has been
\* written and no line has been read; and setup() goes on only with a handle.
C13_TimerInitFatal ==
  /\ [](pc = "halt" => /\ ~timer.handle /\ ~timer.isr /\ ~timer.alarmEn
                       /\ lutIndex = 0 /\ dacWrites = 0 /\ dacOut = DAC_UNWRITTEN
                       /\ ~updateFrequency /\ input = NoLine)
  /\ []((~timer.handle /\ pc \notin {"setup_generateSineLUT", "setup_timerBegin"})
          => pc = "halt")
  /\ [][pc # "halt"]_vars

\* C13 witness: timerBegin has returned NULL.
C13_Witness ==
  /\ pc = "halt"
  /\ ~timer.handle
  /\ sineLUT = generateSineLUT

\* --------------------------- the blocking generator (part_000) as a player
\* Its table is sineLUT, its static int index is held in lutIndex; one pass
\* of loop() writes one sample, advances the index and waits
\* Basic_delayMicros.
InitBasic ==
  /\ pc = "Basic_setup"
  /\ sineLUT = [i \in 0..(Basic_LUT_SIZE - 1) |-> 0]
  /\ lutIndex = 0
  /\ timer = [handle |-> FALSE, isr |-> FALSE, alarmEn |-> FALSE,
              alarmValue |-> 0, autoreload |-> FALSE]
  /\ targetFrequency = Basic_FREQ_HZ * FREQ_DEN
  /\ updatePeriodMicros = Basic_delayMicros
  /\ updateFrequency = FALSE
  /\ dacOut = DAC_UNWRITTEN
  /\ dacWrites = 0
  /\ lastWrite = "none"
  /\ input = NoLine
  /\ applied = NoneApplied
  /\ probe = [fn |-> "none", done |-> FALSE]

Basic_setup ==
  /\ pc = "Basic_setup"
  /\ sineLUT' = Basic_generateSineLUT
  /\ pc' = "Basic_loop"
  /\ UNCHANGED <<lutIndex, timer, targetFrequency, updatePeriodMicros,
                 updateFrequency, dacOut, dacWrites, lastWrite, input, applied, probe>>

Basic_loop ==
  /\ pc = "Basic_loop"
  /\ dacOut' = sineLUT[lutIndex]
  /\ lutIndex' = (lutIndex + 1) % Basic_LUT_SIZE
  /\ dacWrites' = countWrite(dacWrites)
  /\ lastWrite' = "loop"
  /\ UNCHANGED <<pc, sineLUT, timer, targetFrequency, updatePeriodMicros,
                 updateFrequency, input, applied, probe>>

\* Either generator, run from its start.
SpecTicks == (Init \/ InitBasic) /\ [][Next \/ Basic_setup \/ Basic_loop]_vars

\* C14: a tick writes the table entry at the cursor and then moves the
\* cursor to the next index, 0 after the last; the cursor is moved by
\* nothing else.  So consecutive ticks write the table in cyclic order and
\* size ticks bring the cursor back.  The same holds of one pass of the
\* loop of the blocking generator.
C14_TickEmitsAndAdvances ==
  [][ /\ (onTimer \/ (pc \notin {"Basic_setup", "Basic_loop"} /\ lutIndex' # lutIndex))
        => /\ sineLUT = generateSineLUT
           /\ lutIndex \in 0..(LUT_SIZE - 1)
           /\ dacOut' = generateSineLUT[lutIndex]
           /\ lutIndex' = (lutIndex + 1) % LUT_SIZE
      /\ Basic_loop
        => /\ sineLUT = Basic_generateSineLUT
           /\ lutIndex \in 0..(Basic_LUT_SIZE - 1)
           /\ dacOut' = Basic_generateSineLUT[lutIndex]
           /\ lutIndex' = (lutIndex + 1) % Basic_LUT_SIZE
    ]_vars

\* C14 witness: the tick at the last index has written the last entry and
\* wrapped the cursor to 0.
C14_Witness ==
  /\ pc \notin {"Basic_setup", "Basic_loop"}
  /\ lastWrite = "onTimer"
  /\ lutIndex = 0
  /\ dacOut = generateSineLUT[LUT_SIZE - 1]
  /\ dacOut # generateSineLUT[0]

\* C15: whenever the callback is attached and the alarm is armed, the alarm
\* period is updatePeriodMicros and is at least 1, so every tick fires under
\* the period last computed; and when a reconfiguration to a positive
\* frequency completes, that period is the one computed from it.
C15_TicksUnderNewPeriod ==
  /\ (timer.isr /\ timer.alarmEn)
     => /\ timer.alarmValue = updatePeriodMicros
        /\ updatePeriodMicros >= 1
        /\ timer.autoreload
  /\ (pc = "loop_clearUpdate" /\ targetFrequency > 0)
     => (timer.isr /\ timer.alarmEn)
  /\ (timer.isr /\ timer.alarmEn /\ (~updateFrequency \/ pc = "loop_clearUpdate"))
     => /\ targetFrequency > 0
        /\ timer.alarmValue = calculateUpdatePeriod(targetFrequency)

\* C15 witness: a player started at 100 Hz (39 us) has been reconfigured to
\* 20 kHz and ticks at 1 us.
C15_Witness ==
  /\ timer.isr /\ timer.alarmEn
  /\ timer.alarmValue = 1 /\ updatePeriodMicros = 1
  /\ lastWrite = "onTimer"
  /\ pc = "loop_delay"

\* C16: a tick leaves updatePeriodMicros, targetFrequency, updateFrequency,
\* the timer configuration, the callback attachment, the table and the
\* position of the main context unchanged; and lutIndex is changed by ticks
\* only.
C16_SingleWriter ==
  [][ /\ onTimer => UNCHANGED <<updatePeriodMicros, targetFrequency, updateFrequency,
                                timer, sineLUT, pc, input>>
      /\ lutIndex' # lutIndex => onTimer
    ]_vars

\* C16 witness: a tick has fired in the middle of a pass of loop() that has
\* accepted a new frequency and not yet detached the callback.
C16_Witness ==
  /\ pc = "loop_timerDetachInterrupt"
  /\ updateFrequency
  /\ lastWrite = "onTimer" /\ lutIndex = 1
  /\ applied = NoneApplied

\* The positions at which every start or reconfiguration begun so far has
\* completed, so that targetFrequency is the frequency most recently applied.
Completed ==
  /\ pc \in {"loop_readSerial", "loop_checkUpdate", "loop_clearUpdate", "loop_delay"}
  /\ (updateFrequency => pc = "loop_clearUpdate")

Running ==
  /\ timer.isr /\ timer.alarmEn
  /\ updatePeriodMicros >= 1
  /\ timer.alarmValue = updatePeriodMicros

Stopped == ~timer.isr /\ updatePeriodMicros = 0

\* C17: once the start and every reconfiguration begun have completed, the
\* player is Running exactly when the frequency last applied is > 0 and
\* Stopped exactly when it is <= 0, whatever state it was in before.
C17_StateMachine ==
  Completed => /\ (targetFrequency > 0) <=> Running
               /\ (targetFrequency <= 0) <=> Stopped

\* C17 witness: a reconfiguration to a positive frequency has just completed
\* on a player that was Stopped (its last write is the rest write).
C17_Witness ==
  /\ pc = "loop_clearUpdate"
  /\ Running /\ targetFrequency > 0
  /\ lastWrite = "loop" /\ dacOut = restCode

Accepted(line) == line.kind # "none" /\ toFloat(line) >= 0

\* C18: after a pass of loop() has read the serial port the update flag is
\* set exactly when that pass accepted a value; the reconfiguration steps
\* run only with the flag set, for the value accepted in the same pass; the
\* step that ends the reconfiguration clears the flag, and the flag is clear
\* at the end of every pass.
C18_ConsumedOnce ==
  /\ [](pc = "loop_checkUpdate" => (updateFrequency <=> Accepted(input)))
  /\ [](pc \in UpdateBranch
          => /\ updateFrequency /\ Accepted(input)
             /\ targetFrequency = toFloat(input))
  /\ [](pc \in {"loop_delay", "loop_readSerial"} => ~updateFrequency)
  /\ [][ /\ loop_clearUpdate => (updateFrequency /\ ~updateFrequency' /\ pc' = "loop_delay")
         /\ (pc \notin SetupPcs /\ (timer' # timer \/ (lastWrite' = "loop" /\ lastWrite # "loop")))
              => (pc \in UpdateBranch /\ updateFrequency)
       ]_vars

\* C18 witness: a pass of loop() has accepted 20 kHz, applied it, and reached
\* its end with the flag clear.
C18_Witness ==
  /\ pc = "loop_delay"
  /\ Accepted(input) /\ toFloat(input) = Hz(20000)
  /\ ~updateFrequency
  /\ applied.valid /\ applied.freq = Hz(20000)
  /\ updatePeriodMicros = 1

\* C19: a reconfiguration to the frequency of the reconfiguration before it,
\* with no tick between the two, completes in the playback state the first
\* one left: same period, same attachment and alarm, same cursor, same code
\* on the output.
C19_Idempotent ==
  [][ ((loop_timerAttachInterrupt \/ loop_dacWrite)
        /\ applied.valid /\ applied.freq = targetFrequency)
      => /\ Playback(timer', updatePeriodMicros', lutIndex', dacOut') = applied.state
         /\ applied'.repeated /\ applied'.state = applied.state
    ]_vars

\* C19 witness: 100 Hz has been applied twice in a row to a running player
\* stopped in mid-wave, and no tick has fired since the first.
C19_Witness ==
  /\ applied.valid /\ applied.repeated
  /\ applied.freq = Hz(100)
  /\ Running /\ updatePeriodMicros = calculateUpdatePeriod(Hz(100))
  /\ lutIndex > 0
  /\ pc = "loop_delay"

\* The hardware timer keeps counting: an attached callback whose alarm stays
\* armed is eventually called.
SpecLive == Init /\ [][Next]_vars /\ WF_vars(onTimer)

\* C20: the cursor does not move while the callback is detached, and the
\* first tick after a stop writes the entry at the cursor held through the
\* stop; and if from some point on the callback stays attached and armed,
\* the cursor advances infinitely often, always by one step around the
\* table, so that every index (the first, the middle and the last are
\* named) is the cursor infinitely often.
C20_ResumesAndProgresses ==
  /\ [][ /\ ~(timer.isr /\ timer.alarmEn) => lutIndex' = lutIndex
         /\ lutIndex' # lutIndex => lutIndex' = (lutIndex + 1) % LUT_SIZE
         /\ (onTimer /\ lastWrite = "loop")
              => (dacOut' = generateSineLUT[lutIndex] /\ lutIndex' = (lutIndex + 1) % LUT_SIZE)
       ]_vars
  /\ <>[](timer.isr /\ timer.alarmEn)
       => []<><<onTimer /\ lutIndex' = (lutIndex + 1) % LUT_SIZE>>_vars
  /\ \A i \in {0, LUT_SIZE \div 2, LUT_SIZE - 1} :
       <>[](timer.isr /\ timer.alarmEn) => []<>(lutIndex = i /\ timer.isr)

\* C20 witness: a player stopped in mid-wave has been restarted; the cursor
\* is where the stop found it and the output still rests.
C20_Witness ==
  /\ Running /\ Completed
  /\ lastWrite = "loop" /\ dacOut = restCode
  /\ lutIndex > 0
  /\ applied.valid /\ applied.freq > 0
====
